---- MODULE Spec2Model ----
(***************************************************************************)
(* State-machine model of the echolist-be backend: the relational tables   *)
(* (connections, sections, section_access, items), every request handler   *)
(* of the connections / sections / items APIs in both of its               *)
(* implementations (the service classes and the route handlers that        *)
(* inline the same logic), and the check-then-insert race of               *)
(* create_connection.                                                      *)
(*                                                                         *)
(* Columns that no guard reads (names, colours, text, timestamps,          *)
(* embeddings) are not part of the state.  A handler is one atomic step:   *)
(* each request runs on its own Session, which is committed at the end of  *)
(* a successful handler and closed (rolled back) when the handler raises.  *)
(***************************************************************************)
EXTENDS Integers, FiniteSets, Sequences, TLC

\* ------------------------------------------------------------- bounds
NUsers == 3
MaxConnId == 2
MaxSharedConnId == 1
MaxSectionId == 1
MaxRules == 2
MaxSharedRules == 1
MaxItemId == 1
NProcs == 2
MaxDocs == 4
MaxK == 2

\* ---------------------------------------------------------- constants
HTTP_200 == 200
HTTP_204 == 204
HTTP_400 == 400
HTTP_403 == 403
HTTP_404 == 404
HTTP_500 == 500

Users == 1..NUsers
\* an email / user id that resolves to no row of users
NoUser == 0
Procs == 1..NProcs

ConnectionType == {"Family", "Friend", "Colleague"}
\* the connection types that requests are drawn from
TypeInputs == {"Family", "Friend"}
PENDING == "Pending"
ACCEPTED == "Accepted"
ConnectionStatus == {PENDING, ACCEPTED}
\* Python's None (not the string "None" a language model may answer)
None == "<None>"
Layers == {"service", "router"}

VARIABLES
    connections,          \* table connections: set of rows
    next_connection_id,   \* the serial behind connections.connection_id
    sections,             \* table sections: set of rows
    next_section_id,
    section_access,       \* table section_access: set of rows
    items,                \* table items: set of rows
    next_item_id,
    inflight,             \* create_connection requests between check and insert
    last,                 \* the last request served and its response
    vectordb,             \* the vector index: the stored chunks, in insertion order
    ai_service,           \* module global ai_service: NoInstance or the instance it holds
    model,                \* module global model: NoInstance or the instance it holds
    constructed,          \* how many AIService / SentenceTransformer objects were built
    callers               \* threads inside get_ai_service: position and outcome

vars == <<connections, next_connection_id, sections, next_section_id,
          section_access, items, next_item_id, inflight, last, vectordb,
          ai_service, model, constructed, callers>>

conn_vars == <<connections, next_connection_id>>
section_vars == <<sections, next_section_id, section_access>>
item_vars == <<items, next_item_id>>
singleton_vars == <<ai_service, model, constructed, callers>>

\* a thread that is not inside a getter
\* Python None where an instance is expected; instances are numbered from 1
NoInstance == 0

IdleCaller == [pc |-> "idle", fn |-> None, ret |-> NoInstance]

\* ------------------------------------------------------------ requests
\* last.layer is recorded for create_connection only, the one connection
\* operation whose two implementations differ in their guards.
Response(op, layer, actor, target, ctype, status, code, detail) ==
    [op |-> op, layer |-> layer, actor |-> actor, target |-> target,
     ctype |-> ctype, status |-> status, code |-> code, detail |-> detail]

IdleReq == [pc |-> "idle", layer |-> None, actor |-> NoUser, target |-> NoUser,
            ctype |-> None, code |-> 0]

\* --------------------------------------------------- connection queries
Connection(id, a, b, ty, st) ==
    [connection_id |-> id, user_a_id |-> a, user_b_id |-> b,
     connection_type |-> ty, status |-> st]

get_connection_by_id(connection_id) ==
    {c \in connections : c.connection_id = connection_id}

get_existing_connection(user_a_id, user_b_id) ==
    {c \in connections :
        \/ (c.user_a_id = user_a_id /\ c.user_b_id = user_b_id)
        \/ (c.user_a_id = user_b_id /\ c.user_b_id = user_a_id)}

_user_has_connection_access(connection, user_id) ==
    connection.user_a_id = user_id \/ connection.user_b_id = user_id

\* the table constraint unique_connection on (user_a_id, user_b_id)
unique_connection(user_a_id, user_b_id) ==
    ~ \E c \in connections : c.user_a_id = user_a_id /\ c.user_b_id = user_b_id

\* ----------------------------------------------------- create_connection
\* ConnectionService.create_connection: the target is looked up by email;
\* the outcome up to (not including) the insert.
ConnectionService_create_connection(actor, target) ==
    IF target = NoUser THEN [code |-> HTTP_404, detail |-> "not found"]
    ELSE IF target = actor THEN [code |-> HTTP_400, detail |-> "yourself"]
    ELSE IF get_existing_connection(actor, target) # {}
         THEN [code |-> HTTP_400, detail |-> "exists"]
    ELSE [code |-> HTTP_200, detail |-> None]

\* the route handler create_connection: the target is looked up by user id.
router_create_connection(actor, target) ==
    IF target = NoUser THEN [code |-> HTTP_404, detail |-> "not found"]
    ELSE IF get_existing_connection(actor, target) # {}
         THEN [code |-> HTTP_400, detail |-> "exists"]
    ELSE [code |-> HTTP_200, detail |-> None]

create_connection_check(layer, actor, target) ==
    IF layer = "service"
    THEN ConnectionService_create_connection(actor, target)
    ELSE router_create_connection(actor, target)

\* The text of the conflict error: the service reports the status of the row
\* that .first() returned, the route handler reports no status.
conflict_detail(layer, existing) ==
    IF layer = "service" THEN existing.status ELSE "exists"

\* ConnectionRepository.create_connection: INSERT and COMMIT.
\* a creation with the two users exchanged
insert_connection_as_target(actor, target, ctype) ==
    Connection(next_connection_id, target, actor, ctype, PENDING)

insert_connection(actor, target, ctype) ==
    Connection(next_connection_id, actor, target, ctype, PENDING)

create_connection(layer, actor, target, ctype) ==
    LET out == create_connection_check(layer, actor, target) IN
    /\ UNCHANGED <<section_vars, item_vars, inflight, vectordb, singleton_vars>>
    /\ IF out.code = HTTP_200
       THEN /\ next_connection_id <= MaxConnId
            /\ connections' = connections \cup {insert_connection(actor, target, ctype)}
            /\ next_connection_id' = next_connection_id + 1
            /\ last' = Response("create_connection", layer, actor, target, ctype,
                                None, HTTP_200, None)
       ELSE /\ UNCHANGED conn_vars
            /\ IF out.detail = "exists"
               THEN \E existing \in get_existing_connection(actor, target) :
                        last' = Response("create_connection", layer, actor, target,
                                         ctype, None, out.code,
                                         conflict_detail(layer, existing))
               ELSE last' = Response("create_connection", layer, actor, target,
                                     ctype, None, out.code, out.detail)

\* ----------------------------------------------------- get_connection
ConnectionService_get_connection(connection_id, actor) ==
    IF get_connection_by_id(connection_id) = {} THEN HTTP_404
    ELSE IF \E c \in get_connection_by_id(connection_id) :
                ~ _user_has_connection_access(c, actor) THEN HTTP_403
    ELSE HTTP_200

router_get_connection(connection_id, actor) ==
    IF get_connection_by_id(connection_id) = {} THEN HTTP_404
    ELSE IF \E c \in get_connection_by_id(connection_id) :
                c.user_a_id # actor /\ c.user_b_id # actor THEN HTTP_403
    ELSE HTTP_200

get_connection(layer, connection_id, actor) ==
    /\ UNCHANGED <<conn_vars, section_vars, item_vars, inflight, vectordb, singleton_vars>>
    /\ last' = Response("get_connection", None, actor, connection_id, None, None,
                        IF layer = "service"
                        THEN ConnectionService_get_connection(connection_id, actor)
                        ELSE router_get_connection(connection_id, actor),
                        None)

\* ----------------------------------------------------- update_connection
\* update_connection without the recipient guard on status = Accepted
ConnectionService_update_connection_any_accepts(connection_id, actor, ctype, status) ==
    IF get_connection_by_id(connection_id) = {} THEN HTTP_404
    ELSE LET connection == CHOOSE c \in get_connection_by_id(connection_id) : TRUE IN
         IF ~ _user_has_connection_access(connection, actor) THEN HTTP_403
         ELSE IF ctype # None /\ connection.user_a_id # actor THEN HTTP_403
         ELSE HTTP_200

\* update_connection without the initiator guard on connection_type
router_update_connection_any_retypes(connection_id, actor, ctype, status) ==
    IF get_connection_by_id(connection_id) = {} THEN HTTP_404
    ELSE LET connection == CHOOSE c \in get_connection_by_id(connection_id) : TRUE IN
         IF connection.user_a_id # actor /\ connection.user_b_id # actor THEN HTTP_403
         ELSE IF status # None /\ status = ACCEPTED /\ connection.user_b_id # actor
              THEN HTTP_403
         ELSE HTTP_200

\* ConnectionService.update_connection: the response code.
ConnectionService_update_connection(connection_id, actor, ctype, status) ==
    IF get_connection_by_id(connection_id) = {} THEN HTTP_404
    ELSE LET connection == CHOOSE c \in get_connection_by_id(connection_id) : TRUE IN
         IF ~ _user_has_connection_access(connection, actor) THEN HTTP_403
         ELSE IF ctype # None /\ connection.user_a_id # actor THEN HTTP_403
         ELSE IF status # None /\ status = ACCEPTED /\ connection.user_b_id # actor
              THEN HTTP_403
         ELSE HTTP_200

router_update_connection(connection_id, actor, ctype, status) ==
    IF get_connection_by_id(connection_id) = {} THEN HTTP_404
    ELSE LET connection == CHOOSE c \in get_connection_by_id(connection_id) : TRUE IN
         IF connection.user_a_id # actor /\ connection.user_b_id # actor THEN HTTP_403
         ELSE IF ctype # None /\ connection.user_a_id # actor THEN HTTP_403
         ELSE IF status # None /\ status = ACCEPTED /\ connection.user_b_id # actor
              THEN HTTP_403
         ELSE HTTP_200

\* ConnectionRepository.update_connection: setattr for every key whose value
\* is not None, then COMMIT.
repository_update_connection(connection, ctype, status) ==
    [connection EXCEPT
        !.connection_type = IF ctype # None THEN ctype ELSE @,
        !.status = IF status # None THEN status ELSE @]

\* The route handler assigns connection.connection_type on the loaded row
\* as soon as the type guard passes, before the status guard is evaluated:
\* the row as the session holds it when the handler raises 403.
router_pending_connection(connection, actor, ctype) ==
    IF /\ _user_has_connection_access(connection, actor)
       /\ ctype # None
       /\ connection.user_a_id = actor
    THEN [connection EXCEPT !.connection_type = ctype]
    ELSE connection

\* a session whose close writes the pending attributes
Session_close_flushes(stored, pending) == pending

\* get_db: the handler raised before db.commit(), and db.close() discards
\* what the session holds; the stored row stays.
Session_close(stored, pending) == stored

update_connection(layer, connection_id, actor, ctype, status) ==
    LET code == IF layer = "service"
                THEN ConnectionService_update_connection(connection_id, actor, ctype, status)
                ELSE router_update_connection(connection_id, actor, ctype, status) IN
    /\ UNCHANGED <<next_connection_id, section_vars, item_vars, inflight, vectordb, singleton_vars>>
    /\ last' = Response("update_connection", None, actor, connection_id, ctype,
                        status, code, None)
    /\ IF code = HTTP_200
       THEN LET connection == CHOOSE c \in get_connection_by_id(connection_id) : TRUE IN
            connections' = (connections \ {connection})
                              \cup {repository_update_connection(connection, ctype, status)}
       ELSE IF code = HTTP_403 /\ layer = "router"
       THEN LET connection == CHOOSE c \in get_connection_by_id(connection_id) : TRUE IN
            connections' = (connections \ {connection})
                              \cup {Session_close(connection, router_pending_connection(connection, actor, ctype))}
       ELSE UNCHANGED connections

\* ----------------------------------------------------- delete_connection
ConnectionService_delete_connection(connection_id, actor) ==
    IF get_connection_by_id(connection_id) = {} THEN HTTP_404
    ELSE IF \E c \in get_connection_by_id(connection_id) :
                ~ _user_has_connection_access(c, actor) THEN HTTP_403
    ELSE HTTP_204

router_delete_connection(connection_id, actor) ==
    IF get_connection_by_id(connection_id) = {} THEN HTTP_404
    ELSE IF \E c \in get_connection_by_id(connection_id) :
                c.user_a_id # actor /\ c.user_b_id # actor THEN HTTP_403
    ELSE HTTP_204

\* a delete that leaves the row in the table
repository_delete_connection_keeps_row(connection_id) == connections

\* ConnectionRepository.delete_connection: db.delete(connection), COMMIT.
repository_delete_connection(connection_id) ==
    connections \ get_connection_by_id(connection_id)

delete_connection(layer, connection_id, actor) ==
    LET code == IF layer = "service"
                THEN ConnectionService_delete_connection(connection_id, actor)
                ELSE router_delete_connection(connection_id, actor) IN
    /\ UNCHANGED <<next_connection_id, section_vars, item_vars, inflight, vectordb, singleton_vars>>
    /\ last' = Response("delete_connection", None, actor, connection_id, None, None,
                        code, None)
                   @@ [deleted |-> IF code = HTTP_204
                                   THEN get_connection_by_id(connection_id) ELSE {}]
    /\ connections' = IF code = HTTP_204
                      THEN repository_delete_connection(connection_id)
                      ELSE connections


\* =====================================================================
\* Sections, access rules and items
\* =====================================================================
Section(id, owner) == [section_id |-> id, owner_user_id |-> owner]

SectionAccess(section_id, ctype, can_view, can_edit) ==
    [section_id |-> section_id, allowed_connection_type |-> ctype,
     can_view |-> can_view, can_edit |-> can_edit]

Item(id, section_id, creator) ==
    [item_id |-> id, section_id |-> section_id, creator_user_id |-> creator,
     last_modified_by_user_id |-> creator]

get_section_by_id(section_id) == {s \in sections : s.section_id = section_id}

\* a lookup of the connections between two users that tries one ordering only
get_connections_between_users_one_ordering(db_connections, user_a_id, user_b_id) ==
    {c \in db_connections : c.user_a_id = user_a_id /\ c.user_b_id = user_b_id}

\* SectionRepository.get_connections_between_users over the rows
\* db_connections of the connections table.
SectionRepository_get_connections_between_users(db_connections, user_a_id, user_b_id) ==
    {c \in db_connections :
        \/ (c.user_a_id = user_a_id /\ c.user_b_id = user_b_id)
        \/ (c.user_a_id = user_b_id /\ c.user_b_id = user_a_id)}

\* ItemRepository.get_connections_between_users.
ItemRepository_get_connections_between_users(db_connections, user_a_id, user_b_id) ==
    {c \in db_connections :
        \/ (c.user_a_id = user_a_id /\ c.user_b_id = user_b_id)
        \/ (c.user_a_id = user_b_id /\ c.user_b_id = user_a_id)}

\* get_section_access_rule / get_existing_section_access: the rule of a
\* section for a connection type (.first() of at most one row).
get_section_access_rule(section_id, connection_type) ==
    {r \in section_access : /\ r.section_id = section_id
                            /\ r.allowed_connection_type = connection_type}

\* a resolver that honours accepted connections only
_has_section_access_accepted_only(db_connections, section_id, owner_user_id, current_user_id, access_type) ==
    \E conn \in SectionRepository_get_connections_between_users(db_connections, owner_user_id, current_user_id) :
        /\ conn.status = ACCEPTED
        /\ \E access_rule \in get_section_access_rule(section_id, conn.connection_type) :
              \/ (access_type = "view" /\ access_rule.can_view)
              \/ (access_type = "edit" /\ access_rule.can_edit)

\* a resolver that grants edit on the strength of can_view
_has_section_access_view_grants_edit(db_connections, section_id, owner_user_id, current_user_id, access_type) ==
    \E conn \in SectionRepository_get_connections_between_users(
                    db_connections, owner_user_id, current_user_id) :
        \E access_rule \in get_section_access_rule(section_id, conn.connection_type) :
            access_rule.can_view

\* SectionService._has_section_access.
_has_section_access(db_connections, section_id, owner_user_id, current_user_id, access_type) ==
    \E conn \in SectionRepository_get_connections_between_users(
                    db_connections, owner_user_id, current_user_id) :
        \E access_rule \in get_section_access_rule(section_id, conn.connection_type) :
            \/ (access_type = "view" /\ access_rule.can_view)
            \/ (access_type = "edit" /\ access_rule.can_edit)

\* The loop that the sections route handlers inline (get_section: can_view,
\* update_section: can_edit).
router_section_has_access(db_connections, section_id, owner_user_id, current_user_id, access_type) ==
    \E conn \in {c \in db_connections :
                    \/ (c.user_a_id = owner_user_id /\ c.user_b_id = current_user_id)
                    \/ (c.user_a_id = current_user_id /\ c.user_b_id = owner_user_id)} :
        \E access_rule \in get_section_access_rule(section_id, conn.connection_type) :
            IF access_type = "view" THEN access_rule.can_view ELSE access_rule.can_edit

\* The loop that ItemService inlines (create_item: can_edit,
\* get_items_by_section: can_view).
ItemService_has_access(db_connections, section_id, owner_user_id, current_user_id, access_type) ==
    \E conn \in ItemRepository_get_connections_between_users(
                    db_connections, owner_user_id, current_user_id) :
        \E access_rule \in get_section_access_rule(section_id, conn.connection_type) :
            IF access_type = "view" THEN access_rule.can_view ELSE access_rule.can_edit

\* The loop that the items route handlers inline.
router_item_has_access(db_connections, section_id, owner_user_id, current_user_id, access_type) ==
    \E conn \in {c \in db_connections :
                    \/ (c.user_a_id = owner_user_id /\ c.user_b_id = current_user_id)
                    \/ (c.user_a_id = current_user_id /\ c.user_b_id = owner_user_id)} :
        \E access_rule \in get_section_access_rule(section_id, conn.connection_type) :
            IF access_type = "view" THEN access_rule.can_view ELSE access_rule.can_edit

OwnerOf(section_id) == (CHOOSE s \in get_section_by_id(section_id) : TRUE).owner_user_id

\* ----------------------------------------------------- create_section
create_section(actor) ==
    /\ next_section_id <= MaxSectionId
    /\ sections' = sections \cup {Section(next_section_id, actor)}
    /\ next_section_id' = next_section_id + 1
    /\ last' = Response("create_section", None, actor, next_section_id, None, None,
                        HTTP_200, None)
    /\ UNCHANGED <<conn_vars, section_access, item_vars, inflight, vectordb, singleton_vars>>

\* ----------------------------------------------------- get_section
\* get_section that sends the owner through the resolver as well
SectionService_get_section_no_owner_rule(section_id, actor) ==
    IF get_section_by_id(section_id) = {} THEN HTTP_404
    ELSE IF ~ _has_section_access(connections, section_id, OwnerOf(section_id),
                                  actor, "view") THEN HTTP_403
    ELSE HTTP_200

SectionService_get_section(section_id, actor) ==
    IF get_section_by_id(section_id) = {} THEN HTTP_404
    ELSE IF /\ OwnerOf(section_id) # actor
            /\ ~ _has_section_access(connections, section_id, OwnerOf(section_id),
                                     actor, "view") THEN HTTP_403
    ELSE HTTP_200

router_get_section(section_id, actor) ==
    IF get_section_by_id(section_id) = {} THEN HTTP_404
    ELSE IF /\ OwnerOf(section_id) # actor
            /\ ~ router_section_has_access(connections, section_id,
                                           OwnerOf(section_id), actor, "view")
         THEN HTTP_403
    ELSE HTTP_200

get_section(layer, section_id, actor) ==
    /\ UNCHANGED <<conn_vars, section_vars, item_vars, inflight, vectordb, singleton_vars>>
    /\ last' = Response("get_section", None, actor, section_id, None, None,
                        IF layer = "service"
                        THEN SectionService_get_section(section_id, actor)
                        ELSE router_get_section(section_id, actor),
                        None)

\* ----------------------------------------------------- update_section
\* name, colour and description are not part of the state: a successful
\* update commits and changes no modelled column.
SectionService_update_section(section_id, actor) ==
    IF get_section_by_id(section_id) = {} THEN HTTP_404
    ELSE IF /\ OwnerOf(section_id) # actor
            /\ ~ _has_section_access(connections, section_id, OwnerOf(section_id),
                                     actor, "edit") THEN HTTP_403
    ELSE HTTP_200

router_update_section(section_id, actor) ==
    IF get_section_by_id(section_id) = {} THEN HTTP_404
    ELSE IF /\ OwnerOf(section_id) # actor
            /\ ~ router_section_has_access(connections, section_id,
                                           OwnerOf(section_id), actor, "edit")
         THEN HTTP_403
    ELSE HTTP_200

update_section(layer, section_id, actor) ==
    /\ UNCHANGED <<conn_vars, section_vars, item_vars, inflight, vectordb, singleton_vars>>
    /\ last' = Response("update_section", None, actor, section_id, None, None,
                        IF layer = "service"
                        THEN SectionService_update_section(section_id, actor)
                        ELSE router_update_section(section_id, actor),
                        None)

\* ----------------------------------------------------- delete_section
\* a guard that lets whoever may edit the section delete it
delete_section_editors_allowed(section_id, actor) ==
    IF get_section_by_id(section_id) = {} THEN HTTP_404
    ELSE IF /\ OwnerOf(section_id) # actor
            /\ ~ _has_section_access(connections, section_id, OwnerOf(section_id),
                                     actor, "edit") THEN HTTP_403
    ELSE HTTP_204

\* a guard that asks for ownership before it asks whether the section exists
delete_section_owner_first(section_id, actor) ==
    IF \A sec \in get_section_by_id(section_id) : sec.owner_user_id # actor THEN HTTP_403
    ELSE HTTP_204

SectionService_delete_section(section_id, actor) ==
    IF get_section_by_id(section_id) = {} THEN HTTP_404
    ELSE IF OwnerOf(section_id) # actor THEN HTTP_403
    ELSE HTTP_204

router_delete_section(section_id, actor) ==
    IF get_section_by_id(section_id) = {} THEN HTTP_404
    ELSE IF OwnerOf(section_id) # actor THEN HTTP_403
    ELSE HTTP_204

\* a relationship without cascade: the items of the section are kept
Section_items_no_cascade(section_id) == items

\* Section.items, cascade="all, delete-orphan": the items left after the
\* section's deletion.
Section_items_cascade(section_id) == {i \in items : i.section_id # section_id}

\* Section.access_rules, cascade="all, delete-orphan".
Section_access_rules_cascade(section_id) ==
    {r \in section_access : r.section_id # section_id}

\* db.delete(section) with cascade="all, delete-orphan" on Section.items and
\* Section.access_rules.
delete_section(layer, section_id, actor) ==
    LET code == IF layer = "service"
                THEN SectionService_delete_section(section_id, actor)
                ELSE router_delete_section(section_id, actor) IN
    /\ UNCHANGED <<conn_vars, next_section_id, next_item_id, inflight, vectordb, singleton_vars>>
    /\ last' = Response("delete_section", None, actor, section_id, None, None,
                        code, None)
    /\ IF code = HTTP_204
       THEN /\ sections' = sections \ get_section_by_id(section_id)
            /\ section_access' = Section_access_rules_cascade(section_id)
            /\ items' = Section_items_cascade(section_id)
       ELSE UNCHANGED <<sections, section_access, items>>

\* ----------------------------------------------------- create_section_access
\* a guard that lets whoever may edit the section manage its rules
create_section_access_editors_allowed(section_id, actor) ==
    IF get_section_by_id(section_id) = {} THEN HTTP_404
    ELSE IF /\ OwnerOf(section_id) # actor
            /\ ~ _has_section_access(connections, section_id, OwnerOf(section_id),
                                     actor, "edit") THEN HTTP_403
    ELSE HTTP_200

SectionService_create_section_access(section_id, actor) ==
    IF get_section_by_id(section_id) = {} THEN HTTP_404
    ELSE IF OwnerOf(section_id) # actor THEN HTTP_403
    ELSE HTTP_200

router_create_section_access(section_id, actor) ==
    IF get_section_by_id(section_id) = {} THEN HTTP_404
    ELSE IF OwnerOf(section_id) # actor THEN HTTP_403
    ELSE HTTP_200

\* an update that skips falsy values (if value:) instead of None values
update_section_access_skips_false(access_rule, can_view, can_edit) ==
    [access_rule EXCEPT !.can_view = IF can_view THEN TRUE ELSE @,
                        !.can_edit = IF can_edit THEN TRUE ELSE @]

\* SectionRepository.update_section_access: every value that is not None is
\* assigned; the flags of SectionAccessCreate are bool, never None.
repository_update_section_access(access_rule, can_view, can_edit) ==
    [access_rule EXCEPT !.can_view = can_view, !.can_edit = can_edit]

\* the upsert: update_section_access on the existing rule, else
\* create_section_access.
upsert_section_access(section_id, ctype, can_view, can_edit) ==
    LET existing_rule == get_section_access_rule(section_id, ctype) IN
    IF existing_rule # {}
    THEN (section_access \ existing_rule)
            \cup {repository_update_section_access(r, can_view, can_edit) :
                      r \in existing_rule}
    ELSE section_access \cup {SectionAccess(section_id, ctype, can_view, can_edit)}

\* last records the flags of the request and the branch taken ("updated" an
\* existing rule or "created" one).
create_section_access(layer, section_id, ctype, can_view, can_edit, actor) ==
    LET code == IF layer = "service"
                THEN SectionService_create_section_access(section_id, actor)
                ELSE router_create_section_access(section_id, actor)
        branch == IF code # HTTP_200 THEN None
                  ELSE IF get_section_access_rule(section_id, ctype) # {}
                       THEN "updated" ELSE "created" IN
    /\ UNCHANGED <<conn_vars, sections, next_section_id, item_vars, inflight, vectordb, singleton_vars>>
    /\ last' = Response("create_section_access", None, actor, section_id, ctype,
                        None, code, branch)
                   @@ [can_view |-> can_view, can_edit |-> can_edit]
    /\ IF code = HTTP_200
       THEN /\ \/ get_section_access_rule(section_id, ctype) # {}
               \/ Cardinality(section_access) < MaxRules
            /\ section_access' = upsert_section_access(section_id, ctype,
                                                       can_view, can_edit)
       ELSE UNCHANGED section_access

\* ----------------------------------------------------- get_section_access
SectionService_get_section_access(section_id, actor) ==
    IF get_section_by_id(section_id) = {} THEN HTTP_404
    ELSE IF OwnerOf(section_id) # actor THEN HTTP_403
    ELSE HTTP_200

router_get_section_access(section_id, actor) ==
    IF get_section_by_id(section_id) = {} THEN HTTP_404
    ELSE IF OwnerOf(section_id) # actor THEN HTTP_403
    ELSE HTTP_200

get_section_access(layer, section_id, actor) ==
    /\ UNCHANGED <<conn_vars, section_vars, item_vars, inflight, vectordb, singleton_vars>>
    /\ last' = Response("get_section_access", None, actor, section_id, None, None,
                        IF layer = "service"
                        THEN SectionService_get_section_access(section_id, actor)
                        ELSE router_get_section_access(section_id, actor),
                        None)

\* ----------------------------------------------------- create_item
\* create_embedding never raises: it falls back to a dummy embedding.
ItemService_create_item(section_id, actor) ==
    IF get_section_by_id(section_id) = {} THEN HTTP_404
    ELSE IF /\ OwnerOf(section_id) # actor
            /\ ~ ItemService_has_access(connections, section_id, OwnerOf(section_id),
                                        actor, "edit") THEN HTTP_403
    ELSE HTTP_200

router_create_item(section_id, actor) ==
    IF get_section_by_id(section_id) = {} THEN HTTP_404
    ELSE IF /\ OwnerOf(section_id) # actor
            /\ ~ router_item_has_access(connections, section_id, OwnerOf(section_id),
                                        actor, "edit") THEN HTTP_403
    ELSE HTTP_200

\* the voice route handler takes the section id from the form and runs the
\* same checks as create_item.
router_create_voice_item(section_id, actor) ==
    IF get_section_by_id(section_id) = {} THEN HTTP_404
    ELSE IF /\ OwnerOf(section_id) # actor
            /\ ~ router_item_has_access(connections, section_id, OwnerOf(section_id),
                                        actor, "edit") THEN HTTP_403
    ELSE HTTP_200

insert_item(code, op, layer, section_id, actor) ==
    /\ UNCHANGED <<conn_vars, section_vars, inflight, vectordb, singleton_vars>>
    /\ last' = Response(op, layer, actor, section_id, None, None, code, None)
    /\ IF code = HTTP_200
       THEN /\ next_item_id <= MaxItemId
            /\ items' = items \cup {Item(next_item_id, section_id, actor)}
            /\ next_item_id' = next_item_id + 1
       ELSE UNCHANGED item_vars

create_item(layer, section_id, actor) ==
    insert_item(IF layer = "service"
                THEN ItemService_create_item(section_id, actor)
                ELSE router_create_item(section_id, actor),
                "create_item", None, section_id, actor)

\* ----------------------------------------------------- create_voice_item
\* ItemService.create_voice_item takes no section and checks no permission.
\* vectorize_and_store is called without a sections catalog, so its result
\* carries classification = None (or the call raised and vector_embedding is
\* None); vector_embedding['classification']['section_id'] then raises
\* TypeError before repository.create_item: HTTP 500, nothing stored.
ItemService_create_voice_item(vectorized) ==
    LET classification == None IN
    IF ~ vectorized THEN HTTP_500
    ELSE IF classification = None THEN HTTP_500
    ELSE HTTP_200

NoSection == 0

create_voice_item(layer, section_id, actor, vectorized) ==
    IF layer = "service"
    THEN /\ section_id = NoSection
         /\ insert_item(ItemService_create_voice_item(vectorized),
                        "create_voice_item", layer, NoSection, actor)
    ELSE /\ section_id # NoSection
         /\ vectorized
         /\ insert_item(router_create_voice_item(section_id, actor),
                        "create_voice_item", layer, section_id, actor)

\* ----------------------------------------------------- get_items_by_section
ItemService_get_items_by_section(section_id, actor) ==
    IF get_section_by_id(section_id) = {} THEN HTTP_404
    ELSE IF /\ OwnerOf(section_id) # actor
            /\ ~ ItemService_has_access(connections, section_id, OwnerOf(section_id),
                                        actor, "view") THEN HTTP_403
    ELSE HTTP_200

router_get_items_by_section(section_id, actor) ==
    IF get_section_by_id(section_id) = {} THEN HTTP_404
    ELSE IF /\ OwnerOf(section_id) # actor
            /\ ~ router_item_has_access(connections, section_id, OwnerOf(section_id),
                                        actor, "view") THEN HTTP_403
    ELSE HTTP_200

get_items_by_section(layer, section_id, actor) ==
    /\ UNCHANGED <<conn_vars, section_vars, item_vars, inflight, vectordb, singleton_vars>>
    /\ last' = Response("get_items_by_section", None, actor, section_id, None, None,
                        IF layer = "service"
                        THEN ItemService_get_items_by_section(section_id, actor)
                        ELSE router_get_items_by_section(section_id, actor),
                        None)

\* ----------------------------------------------------- get_item
get_item_by_id(item_id) == {i \in items : i.item_id = item_id}

\* The section of the item is dereferenced without a check: a missing
\* section is an AttributeError (500).
ItemService_get_item(item_id, actor) ==
    IF get_item_by_id(item_id) = {} THEN HTTP_404
    ELSE LET item == CHOOSE i \in get_item_by_id(item_id) : TRUE IN
         IF get_section_by_id(item.section_id) = {} THEN HTTP_500
         ELSE IF /\ OwnerOf(item.section_id) # actor
                 /\ ~ ItemService_has_access(connections, item.section_id, OwnerOf(item.section_id), actor, "view") THEN HTTP_403
         ELSE HTTP_200

router_get_item(item_id, actor) ==
    IF get_item_by_id(item_id) = {} THEN HTTP_404
    ELSE LET item == CHOOSE i \in get_item_by_id(item_id) : TRUE IN
         IF get_section_by_id(item.section_id) = {} THEN HTTP_500
         ELSE IF /\ OwnerOf(item.section_id) # actor
                 /\ ~ router_item_has_access(connections, item.section_id, OwnerOf(item.section_id), actor, "view") THEN HTTP_403
         ELSE HTTP_200

get_item(layer, item_id, actor) ==
    /\ UNCHANGED <<conn_vars, section_vars, item_vars, inflight, vectordb, singleton_vars>>
    /\ last' = Response("get_item", None, actor, item_id, None, None,
                        IF layer = "service" THEN ItemService_get_item(item_id, actor)
                        ELSE router_get_item(item_id, actor),
                        None)

\* ----------------------------------------------------- update_item
\* an update guard without the creator's bypass
update_item_resolver_only(item_id, actor) ==
    IF get_item_by_id(item_id) = {} THEN HTTP_404
    ELSE LET item == CHOOSE i \in get_item_by_id(item_id) : TRUE IN
         IF get_section_by_id(item.section_id) = {} THEN HTTP_500
         ELSE IF /\ OwnerOf(item.section_id) # actor
                 /\ ~ ItemService_has_access(connections, item.section_id, OwnerOf(item.section_id), actor, "edit") THEN HTTP_403
         ELSE HTTP_200

\* The section owner and the item's creator skip the resolver.
ItemService_update_item(item_id, actor) ==
    IF get_item_by_id(item_id) = {} THEN HTTP_404
    ELSE LET item == CHOOSE i \in get_item_by_id(item_id) : TRUE IN
         IF get_section_by_id(item.section_id) = {} THEN HTTP_500
         ELSE IF /\ OwnerOf(item.section_id) # actor
                 /\ item.creator_user_id # actor
                 /\ ~ ItemService_has_access(connections, item.section_id, OwnerOf(item.section_id), actor, "edit") THEN HTTP_403
         ELSE HTTP_200

router_update_item(item_id, actor) ==
    IF get_item_by_id(item_id) = {} THEN HTTP_404
    ELSE LET item == CHOOSE i \in get_item_by_id(item_id) : TRUE IN
         IF get_section_by_id(item.section_id) = {} THEN HTTP_500
         ELSE IF /\ OwnerOf(item.section_id) # actor
                 /\ item.creator_user_id # actor
                 /\ ~ router_item_has_access(connections, item.section_id, OwnerOf(item.section_id), actor, "edit") THEN HTTP_403
         ELSE HTTP_200

\* ItemRepository.update_item: of the columns in the state only
\* last_modified_by_user_id changes.
repository_update_item(item, actor) ==
    [item EXCEPT !.last_modified_by_user_id = actor]

update_item(layer, item_id, actor) ==
    LET code == IF layer = "service" THEN ItemService_update_item(item_id, actor)
                ELSE router_update_item(item_id, actor) IN
    /\ UNCHANGED <<conn_vars, section_vars, next_item_id, inflight, vectordb, singleton_vars>>
    /\ last' = Response("update_item", None, actor, item_id, None, None, code, None)
    /\ items' = IF code = HTTP_200
                THEN {IF i.item_id = item_id THEN repository_update_item(i, actor) ELSE i :
                         i \in items}
                ELSE items

\* ----------------------------------------------------- delete_item
ItemService_delete_item(item_id, actor) ==
    IF get_item_by_id(item_id) = {} THEN HTTP_404
    ELSE LET item == CHOOSE i \in get_item_by_id(item_id) : TRUE IN
         IF get_section_by_id(item.section_id) = {} THEN HTTP_500
         ELSE IF OwnerOf(item.section_id) # actor /\ item.creator_user_id # actor
              THEN HTTP_403
         ELSE HTTP_204

router_delete_item(item_id, actor) ==
    IF get_item_by_id(item_id) = {} THEN HTTP_404
    ELSE LET item == CHOOSE i \in get_item_by_id(item_id) : TRUE IN
         IF get_section_by_id(item.section_id) = {} THEN HTTP_500
         ELSE IF OwnerOf(item.section_id) # actor /\ item.creator_user_id # actor
              THEN HTTP_403
         ELSE HTTP_204

delete_item(layer, item_id, actor) ==
    LET code == IF layer = "service" THEN ItemService_delete_item(item_id, actor)
                ELSE router_delete_item(item_id, actor) IN
    /\ UNCHANGED <<conn_vars, section_vars, next_item_id, inflight, vectordb, singleton_vars>>
    /\ last' = Response("delete_item", None, actor, item_id, None, None, code, None)
    /\ items' = IF code = HTTP_204 THEN items \ get_item_by_id(item_id) ELSE items

\* ----------------------------------------------------- home screen, search
\* similarity scores in tenths: the threshold 0.5 is 5
SIMILARITY_THRESHOLD == 5
SEARCH_LIMIT == 10
SimilarityInputs == {4, 5, 6}
ItemIds == 1..MaxItemId

\* a section list that keeps every section with a rule for the connection's
\* type, whatever the rule's can_view
accessible_section_ids_any_rule(actor) ==
    {s.section_id : s \in {s \in sections : s.owner_user_id = actor}}
    \cup {s.section_id : s \in {s \in sections :
            \E c \in connections :
               /\ (c.user_a_id = actor \/ c.user_b_id = actor)
               /\ s.owner_user_id = (IF c.user_a_id = actor THEN c.user_b_id
                                                            ELSE c.user_a_id)
               /\ \E r \in section_access :
                     /\ r.section_id = s.section_id
                     /\ r.allowed_connection_type = c.connection_type}}

\* all_accessible_section_ids of get_home_screen and search_items: the
\* sections the caller owns and, for every connection of the caller, the
\* other user's sections that have a rule with can_view for the connection's
\* type.
all_accessible_section_ids(actor) ==
    {s.section_id : s \in {s \in sections : s.owner_user_id = actor}}
    \cup {s.section_id : s \in {s \in sections :
            \E c \in connections :
               /\ (c.user_a_id = actor \/ c.user_b_id = actor)
               /\ s.owner_user_id = (IF c.user_a_id = actor THEN c.user_b_id
                                                            ELSE c.user_a_id)
               /\ \E r \in section_access :
                     /\ r.section_id = s.section_id
                     /\ r.allowed_connection_type = c.connection_type
                     /\ r.can_view}}

\* the orders results.sort(key=similarity, reverse=True) can leave the ids of
\* `found` in: non-increasing similarity (rows come from the database in no
\* fixed order, so ties may fall either way)
SortedBySimilarity(found, similarity) ==
    {sq \in [1..Cardinality(found) -> found] :
        /\ \A i, j \in 1..Cardinality(found) : i # j => sq[i] # sq[j]
        /\ \A i, j \in 1..Cardinality(found) :
               i < j => similarity[sq[i]] >= similarity[sq[j]]}

\* results[:limit]
Truncated(results, limit) ==
    [k \in 1..(IF Len(results) < limit THEN Len(results) ELSE limit) |-> results[k]]

\* search_items: the items of the accessible sections whose similarity to
\* the query exceeds the threshold, best first, at most SEARCH_LIMIT. Every
\* stored item carries an embedding (create_embedding always returns bytes).
search_items(actor, similarity) ==
    LET found == {i.item_id : i \in {i \in items :
                     /\ i.section_id \in all_accessible_section_ids(actor)
                     /\ similarity[i.item_id] > SIMILARITY_THRESHOLD}} IN
    /\ UNCHANGED <<conn_vars, section_vars, item_vars, inflight, vectordb, singleton_vars>>
    /\ \E results \in SortedBySimilarity(found, similarity) :
          last' = Response("search_items", None, actor, 0, None, None, HTTP_200, None)
                     @@ [items |-> Truncated(results, SEARCH_LIMIT),
                         similarity |-> similarity]

\* get_home_screen: the three lists select on columns outside the state
\* (is_task, is_completed, due_date, priority, last_modified_at); `listed` is
\* the set of item ids those filters pass.
get_home_screen(actor, listed) ==
    /\ UNCHANGED <<conn_vars, section_vars, item_vars, inflight, vectordb, singleton_vars>>
    /\ last' = Response("get_home_screen", None, actor, 0, None, None, HTTP_200, None)
                   @@ [items |-> {i.item_id : i \in {i \in items :
                                    /\ i.section_id \in all_accessible_section_ids(actor)
                                    /\ i.item_id \in listed}}]

\* =====================================================================
\* The content pipeline (AIService and the /ai route handlers)
\* =====================================================================
\* two texts: a short one (one chunk) and one longer than chunk_size
Texts == {"Buy milk", "long note"}

\* AIService.hash_text: the md5 hex digest of the text; distinct for the two
\* texts.
hash_text(text) == IF text = "Buy milk" THEN "md5:buy-milk" ELSE "md5:long-note"

\* text_splitter.split_text (chunk_size=500, chunk_overlap=100)
split_text(text) ==
    IF text = "Buy milk" THEN <<"chunk">> ELSE <<"chunk", "overlapping chunk">>

\* What the chat model answers to the classification prompt: the call
\* raises, the content is not JSON, or it is a JSON object that has or lacks
\* each of the two keys ("None" is the name the prompt asks for when nothing
\* fits; NoSection stands for JSON null).
NoResponse ==
    [kind |-> "raises", has_name |-> FALSE, name |-> None,
     has_id |-> FALSE, section_id |-> NoSection]

LLMResponses ==
    {NoResponse, [NoResponse EXCEPT !.kind = "not_json"]}
    \cup {r \in [kind : {"object"}, has_name : BOOLEAN, name : {"Groceries", "None", None},
                  has_id : BOOLEAN, section_id : {1, NoSection}] :
            /\ r.has_name <=> r.name # None
            /\ ~ r.has_id => r.section_id = NoSection}

NoClassification ==
    [predicted_section_name |-> None, confidence_score |-> None,
     section_id |-> NoSection]

\* AIService.classify_text_with_llm: llm.invoke, json.loads, dict.get of the
\* two keys (None for a key that is absent), the fixed confidence.
classify_text_with_llm(response) ==
    IF response.kind = "raises" THEN [code |-> HTTP_500, result |-> NoClassification]
    ELSE IF response.kind = "not_json"
         THEN [code |-> HTTP_500, result |-> NoClassification]
    ELSE LET predicted_section_name == IF response.has_name THEN response.name ELSE None
             section_id == IF response.has_id THEN response.section_id ELSE NoSection
             confidence_score == IF predicted_section_name # "None" THEN "1.0" ELSE "0.0"
         IN [code |-> HTTP_200,
             result |-> [predicted_section_name |-> predicted_section_name,
                         confidence_score |-> confidence_score,
                         section_id |-> section_id]]

\* AIService.vectorize_and_store behind POST /ai/vectorize: hash, split,
\* add_documents, then the classification when a catalog is supplied. Any
\* exception, the classification's HTTPException included, leaves the
\* handler as a 500; the chunks added before it stay in the index.
vectorize_and_store(text, with_catalog, index_ok, response) ==
    LET hash_id == hash_text(text)
        chunks == split_text(text)
        docs == [idx \in 1..Len(chunks) |->
                    [original_hash_id |-> hash_id, chunk_index |-> idx - 1]]
        classification == classify_text_with_llm(response)
        code == IF ~ index_ok THEN HTTP_500
                ELSE IF with_catalog /\ classification.code # HTTP_200 THEN HTTP_500
                ELSE HTTP_200 IN
    /\ Len(vectordb) + Len(chunks) <= MaxDocs
    /\ UNCHANGED <<conn_vars, section_vars, item_vars, inflight, singleton_vars>>
    /\ vectordb' = IF index_ok THEN vectordb \o docs ELSE vectordb
    /\ last' = Response("vectorize_and_store", None, NoUser, 0, None, None, code, None)
                   @@ [text |-> text, with_catalog |-> with_catalog,
                       index_ok |-> index_ok, response |-> response,
                       chunks_count |-> IF code = HTTP_200 THEN Len(docs) ELSE 0,
                       hash_id |-> IF code = HTTP_200 THEN hash_id ELSE None,
                       classified |-> code = HTTP_200 /\ with_catalog,
                       classification |-> IF code = HTTP_200 /\ with_catalog
                                          THEN classification.result
                                          ELSE NoClassification]

\* similarity_search_with_score(query, k): the index ranks the entries; the
\* k it returns are taken to be the first k stored.
similarity_search(k) ==
    [i \in 1..(IF Len(vectordb) < k THEN Len(vectordb) ELSE k) |-> vectordb[i]]

\* POST /ai/ask/text: AIService.query_text, then summarize_texts_with_llm
\* inside the same try block.
query_text(k, search_ok, summary_ok) ==
    LET code == IF ~ search_ok THEN HTTP_500
                ELSE IF ~ summary_ok THEN HTTP_500
                ELSE HTTP_200 IN
    /\ UNCHANGED <<conn_vars, section_vars, item_vars, inflight, vectordb, singleton_vars>>
    /\ last' = Response("query_text", None, NoUser, 0, None, None, code, None)
                   @@ [k |-> k, search_ok |-> search_ok, summary_ok |-> summary_ok,
                       results |-> IF code = HTTP_200 THEN similarity_search(k)
                                   ELSE << >>,
                       has_summary |-> code = HTTP_200]

\* ------------------------------------------------------- specification
\* ----------------------------------------------------- process-wide singletons
\* The handlers reach the two getters through get_ai_service() and
\* create_embedding(); the actions above keep the clients out of their
\* state, and the getters are stepped here.  vectorize_and_store and
\* query_text are plain `def` handlers, which the framework runs on
\* threadpool threads, so two calls of get_ai_service can interleave between
\* the test `ai_service is None` and the assignment.  get_model is an
\* `async def` without an await inside: it runs to its return on the event
\* loop.
MaxInstances == 3

\* get_ai_service, the test: an instance that is set is returned at once.
get_ai_service_test(p) ==
    /\ callers[p].pc = "idle"
    /\ constructed.AIService
          + Cardinality({q \in Procs : callers[q].pc = "constructing"}) < MaxInstances
    /\ callers' = [callers EXCEPT ![p] =
                      IF ai_service = NoInstance
                      THEN [pc |-> "constructing", fn |-> "get_ai_service", ret |-> NoInstance]
                      ELSE [pc |-> "returned", fn |-> "get_ai_service", ret |-> ai_service]]
    /\ UNCHANGED <<conn_vars, section_vars, item_vars, inflight, last, vectordb, ai_service, model, constructed>>

\* get_ai_service, `ai_service = AIService()`: __init__ raises ValueError
\* when an environment variable is missing (or a client constructor
\* raises), and the assignment is then not reached.
get_ai_service_assign(p, init_ok) ==
    /\ callers[p].pc = "constructing"
    /\ IF init_ok
       THEN /\ constructed' = [constructed EXCEPT !.AIService = @ + 1]
            /\ ai_service' = constructed.AIService + 1
            /\ callers' = [callers EXCEPT ![p] = [pc |-> "returned", fn |-> "get_ai_service", ret |-> constructed.AIService + 1]]
       ELSE /\ UNCHANGED <<constructed, ai_service>>
            /\ callers' = [callers EXCEPT ![p] = [pc |-> "raised", fn |-> "get_ai_service", ret |-> NoInstance]]
    /\ UNCHANGED <<conn_vars, section_vars, item_vars, inflight, last, vectordb, model>>

\* get_model: load_ok is false when sentence_transformers cannot be
\* imported or SentenceTransformer(...) raises; both paths return None.
get_model(p, load_ok) ==
    /\ callers[p].pc = "idle"
    /\ constructed.SentenceTransformer < MaxInstances
    /\ IF model # NoInstance
       THEN /\ UNCHANGED <<constructed, model>>
            /\ callers' = [callers EXCEPT ![p] = [pc |-> "returned", fn |-> "get_model", ret |-> model]]
       ELSE IF load_ok
       THEN /\ constructed' = [constructed EXCEPT !.SentenceTransformer = @ + 1]
            /\ model' = constructed.SentenceTransformer + 1
            /\ callers' = [callers EXCEPT ![p] = [pc |-> "returned", fn |-> "get_model", ret |-> constructed.SentenceTransformer + 1]]
       ELSE /\ UNCHANGED <<constructed, model>>
            /\ callers' = [callers EXCEPT ![p] = [pc |-> "returned", fn |-> "get_model", ret |-> NoInstance]]
    /\ UNCHANGED <<conn_vars, section_vars, item_vars, inflight, last, vectordb, ai_service>>

\* the caller goes on with what it got and the thread is free again
caller_returns(p) ==
    /\ callers[p].pc \in {"returned", "raised"}
    /\ callers' = [callers EXCEPT ![p] = IdleCaller]
    /\ UNCHANGED <<conn_vars, section_vars, item_vars, inflight, last, vectordb, ai_service, model, constructed>>

Init ==
    /\ connections = {}
    /\ next_connection_id = 1
    /\ sections = {}
    /\ next_section_id = 1
    /\ section_access = {}
    /\ items = {}
    /\ next_item_id = 1
    /\ inflight = [p \in Procs |-> IdleReq]
    /\ last = Response("init", None, NoUser, 0, None, None, 0, None)
    /\ vectordb = << >>
    /\ ai_service = NoInstance
    /\ model = NoInstance
    /\ constructed = [AIService |-> 0, SentenceTransformer |-> 0]
    /\ callers = [p \in Procs |-> IdleCaller]

ConnIds == 1..MaxConnId
Targets == Users \cup {NoUser}
OptType == TypeInputs \cup {None}
OptStatus == ConnectionStatus \cup {None}

CreateConnection ==
    \E layer \in Layers, actor \in Users, target \in Targets, ctype \in TypeInputs :
        create_connection(layer, actor, target, ctype)

GetConnection ==
    \E layer \in Layers, id \in ConnIds, actor \in Users :
        get_connection(layer, id, actor)

UpdateConnection ==
    \E layer \in Layers, id \in ConnIds, actor \in Users,
       ctype \in OptType, status \in OptStatus :
        update_connection(layer, id, actor, ctype, status)

DeleteConnection ==
    \E layer \in Layers, id \in ConnIds, actor \in Users :
        delete_connection(layer, id, actor)

\* --------------------------------- create_connection, check then insert
\* The existence check and the INSERT are two statements of one request; a
\* second request may run between them.  The INSERT is subject to the
\* constraint unique_connection; its violation is an IntegrityError that no
\* handler catches (HTTP 500).
RaceCheck(p) ==
    /\ inflight[p].pc = "idle"
    /\ next_connection_id + Cardinality({q \in Procs : inflight[q].pc = "checked"})
           <= MaxConnId
    /\ \E layer \in Layers, actor \in Users, target \in Targets, ctype \in TypeInputs :
          LET out == create_connection_check(layer, actor, target) IN
          inflight' = [inflight EXCEPT ![p] =
              [pc |-> IF out.code = HTTP_200 THEN "checked" ELSE "done",
               layer |-> layer, actor |-> actor, target |-> target,
               ctype |-> ctype, code |-> out.code]]
    /\ UNCHANGED <<conn_vars, section_vars, item_vars, last, vectordb, singleton_vars>>

RaceInsert(p) ==
    /\ inflight[p].pc = "checked"
    /\ UNCHANGED <<section_vars, item_vars, last, vectordb, singleton_vars>>
    /\ LET r == inflight[p] IN
       IF unique_connection(r.actor, r.target)
       THEN /\ connections' = connections \cup
                                {insert_connection(r.actor, r.target, r.ctype)}
            /\ next_connection_id' = next_connection_id + 1
            /\ inflight' = [inflight EXCEPT ![p].pc = "done", ![p].code = HTTP_200]
       ELSE /\ UNCHANGED conn_vars
            /\ inflight' = [inflight EXCEPT ![p].pc = "done", ![p].code = HTTP_500]

NextRace == \E p \in Procs : RaceCheck(p) \/ RaceInsert(p)

SpecRace == Init /\ [][NextRace]_vars

NextConn ==
    \/ CreateConnection
    \/ GetConnection
    \/ UpdateConnection
    \/ DeleteConnection

SpecConn == Init /\ [][NextConn]_vars

\* ------------------------------------- the sequential system, with sharing
SectionIds == 1..MaxSectionId

CreateSharedConnection ==
    /\ next_connection_id <= MaxSharedConnId
    /\ \E actor \in Users, target \in Targets, ctype \in TypeInputs :
           create_connection("service", actor, target, ctype)

CreateSection == \E actor \in Users : create_section(actor)

GetSection ==
    \E layer \in Layers, id \in SectionIds, actor \in Users :
        get_section(layer, id, actor)

UpdateSection ==
    \E layer \in Layers, id \in SectionIds, actor \in Users :
        update_section(layer, id, actor)

DeleteSection ==
    \E layer \in Layers, id \in SectionIds, actor \in Users :
        delete_section(layer, id, actor)

CreateSectionAccess ==
    \E layer \in Layers, id \in SectionIds, ctype \in TypeInputs,
       can_view \in BOOLEAN, can_edit \in BOOLEAN, actor \in Users :
        create_section_access(layer, id, ctype, can_view, can_edit, actor)

\* the rules of the specifications that also hold connections and items
CreateSharedSectionAccess ==
    \E layer \in Layers, id \in SectionIds, ctype \in TypeInputs,
       can_view \in BOOLEAN, can_edit \in BOOLEAN, actor \in Users :
        /\ \/ get_section_access_rule(id, ctype) # {}
           \/ Cardinality(section_access) < MaxSharedRules
        /\ create_section_access(layer, id, ctype, can_view, can_edit, actor)

GetSectionAccess ==
    \E layer \in Layers, id \in SectionIds, actor \in Users :
        get_section_access(layer, id, actor)

\* ------------------------------------------- sections and their rules
NextRules ==
    \/ CreateSection
    \/ DeleteSection
    \/ CreateSectionAccess
    \/ GetSectionAccess

SpecRules == Init /\ [][NextRules]_vars

CreateItem ==
    \E layer \in Layers, id \in SectionIds, actor \in Users :
        create_item(layer, id, actor)

CreateVoiceItem ==
    \E layer \in Layers, id \in SectionIds \cup {NoSection}, actor \in Users,
       vectorized \in BOOLEAN :
        create_voice_item(layer, id, actor, vectorized)

GetItemsBySection ==
    \E layer \in Layers, id \in SectionIds, actor \in Users :
        get_items_by_section(layer, id, actor)

Next ==
    \/ CreateSharedConnection
    \/ DeleteConnection
    \/ CreateSection
    \/ GetSection
    \/ UpdateSection
    \/ DeleteSection
    \/ CreateSharedSectionAccess
    \/ GetSectionAccess
    \/ CreateItem
    \/ CreateVoiceItem
    \/ GetItemsBySection

Spec == Init /\ [][Next]_vars

\* ------------------------------------- sharing, search and the home screen
SearchItems ==
    \E actor \in Users, similarity \in [ItemIds -> SimilarityInputs] :
        search_items(actor, similarity)

GetHomeScreen ==
    \E actor \in Users, listed \in SUBSET ItemIds : get_home_screen(actor, listed)

NextHome ==
    \/ CreateSharedConnection
    \/ DeleteConnection
    \/ CreateSection
    \/ DeleteSection
    \/ CreateSharedSectionAccess
    \/ CreateItem
    \/ SearchItems
    \/ GetHomeScreen

SpecHome == Init /\ [][NextHome]_vars

\* ------------------------------------------------- the content pipeline
VectorizeAndStore ==
    \E text \in Texts, with_catalog \in BOOLEAN, index_ok \in BOOLEAN :
        \E response \in (IF with_catalog THEN LLMResponses ELSE {NoResponse}) :
            vectorize_and_store(text, with_catalog, index_ok, response)

QueryText ==
    \E k \in 1..MaxK, search_ok \in BOOLEAN, summary_ok \in BOOLEAN :
        query_text(k, search_ok, summary_ok)

NextAI == VectorizeAndStore \/ QueryText

SpecAI == Init /\ [][NextAI]_vars

\* --------------------------------------------- sharing and items by id
GetItem ==
    \E layer \in Layers, id \in 1..MaxItemId, actor \in Users : get_item(layer, id, actor)

UpdateItem ==
    \E layer \in Layers, id \in 1..MaxItemId, actor \in Users : update_item(layer, id, actor)

DeleteItem ==
    \E layer \in Layers, id \in 1..MaxItemId, actor \in Users : delete_item(layer, id, actor)

NextItems ==
    \/ CreateSharedConnection
    \/ DeleteConnection
    \/ CreateSection
    \/ DeleteSection
    \/ CreateSharedSectionAccess
    \/ CreateItem
    \/ GetItem
    \/ UpdateItem
    \/ DeleteItem

SpecItems == Init /\ [][NextItems]_vars

\* ------------------- overlapping connection requests, then a shared section
\* the two users whose requests overlap
RacePair == {1, 2}

RaceCheckPair(p) ==
    /\ RaceCheck(p)
    /\ inflight'[p].layer = "service"
    /\ inflight'[p].actor \in RacePair
    /\ inflight'[p].target \in RacePair

NextDup ==
    \/ \E p \in Procs : RaceCheckPair(p) \/ RaceInsert(p)
    \/ CreateSection
    \/ CreateSharedSectionAccess
    \/ GetSection

SpecDup == Init /\ [][NextDup]_vars

\* ------------------------------------------------- the singletons' getters
GetAIServiceTest == \E p \in Procs : get_ai_service_test(p)

GetAIServiceAssign == \E p \in Procs, init_ok \in BOOLEAN : get_ai_service_assign(p, init_ok)

GetModel == \E p \in Procs, load_ok \in BOOLEAN : get_model(p, load_ok)

CallerReturns == \E p \in Procs : caller_returns(p)

NextSingleton ==
    \/ GetAIServiceTest
    \/ GetAIServiceAssign
    \/ GetModel
    \/ CallerReturns

SpecSingleton == Init /\ [][NextSingleton]_vars

\* =====================================================================
\* Properties
\* =====================================================================
ConnectionsOfPair(x, y) == get_existing_connection(x, y)

SameRow(c, d) == c.connection_id = d.connection_id

\* ---------------------------------------------------------------------
\* what the access rules grant a non-owner: a connection between the two
\* users, a rule of the section for that connection's type, and the rule's
\* flag for the capability
Granted(actor, s, capability) ==
    /\ actor # s.owner_user_id
    /\ \E c \in connections :
          /\ {c.user_a_id, c.user_b_id} = {actor, s.owner_user_id}
          /\ \E r \in section_access :
                /\ r.section_id = s.section_id
                /\ r.allowed_connection_type = c.connection_type
                /\ IF capability = "view" THEN r.can_view ELSE r.can_edit

Allow(granted) == IF granted THEN HTTP_200 ELSE HTTP_403

\* C1: the owner of a section is allowed get_section, get_items_by_section,
\* update_section and create_item on it, whatever connections and rules
\* exist.
C1_OwnerAllowed ==
    /\ \A s \in sections :
          LET id == s.section_id
              o == s.owner_user_id IN
          /\ SectionService_get_section(id, o) = HTTP_200
          /\ router_get_section(id, o) = HTTP_200
          /\ SectionService_update_section(id, o) = HTTP_200
          /\ router_update_section(id, o) = HTTP_200
          /\ ItemService_get_items_by_section(id, o) = HTTP_200
          /\ router_get_items_by_section(id, o) = HTTP_200
          /\ ItemService_create_item(id, o) = HTTP_200
          /\ router_create_item(id, o) = HTTP_200
    /\ (/\ last.op \in {"get_section", "update_section", "get_items_by_section",
                        "create_item"}
        /\ \E s \in sections : s.section_id = last.target
                               /\ s.owner_user_id = last.actor)
       => last.code = HTTP_200

C1_Witness ==
    /\ last.op = "create_item"
    /\ last.code = HTTP_200
    /\ connections = {}
    /\ section_access = {}
    /\ \E s \in sections : s.section_id = last.target /\ s.owner_user_id = last.actor
    /\ \E i \in items : i.section_id = last.target /\ i.creator_user_id = last.actor

\* C2: for a non-owner the resolver answers true exactly when a connection
\* with the owner exists, the section has a rule for that connection's type
\* and the rule's flag for the capability is set; every handler that asks
\* the resolver answers 200 in that case and 403 otherwise.
C2_ResolveIff ==
    \A s \in sections : \A actor \in Users \ {s.owner_user_id} :
        LET id == s.section_id
            o == s.owner_user_id IN
        /\ \A cap \in {"view", "edit"} :
              _has_section_access(connections, id, o, actor, cap)
                 <=> Granted(actor, s, cap)
        /\ SectionService_get_section(id, actor) = Allow(Granted(actor, s, "view"))
        /\ SectionService_update_section(id, actor) = Allow(Granted(actor, s, "edit"))
        /\ ItemService_get_items_by_section(id, actor) = Allow(Granted(actor, s, "view"))
        /\ ItemService_create_item(id, actor) = Allow(Granted(actor, s, "edit"))
        /\ router_get_section(id, actor) = Allow(Granted(actor, s, "view"))
        /\ router_update_section(id, actor) = Allow(Granted(actor, s, "edit"))
        /\ router_get_items_by_section(id, actor) = Allow(Granted(actor, s, "view"))
        /\ router_create_item(id, actor) = Allow(Granted(actor, s, "edit"))

C2_Witness ==
    /\ last.op = "update_section"
    /\ last.code = HTTP_200
    /\ \E s \in sections : /\ s.section_id = last.target
                           /\ s.owner_user_id # last.actor
                           /\ Granted(last.actor, s, "edit")
                           /\ ~ Granted(last.actor, s, "view")

\* C3: the decision for a non-owner is the same on the connections table and
\* on the table with user_a_id and user_b_id of every row exchanged.
Exchanged(db_connections) ==
    {[c EXCEPT !.user_a_id = c.user_b_id, !.user_b_id = c.user_a_id] :
        c \in db_connections}

C3_SymmetricLookup ==
    \A s \in sections : \A actor \in Users \ {s.owner_user_id} :
        \A cap \in {"view", "edit"} :
            LET id == s.section_id
                o == s.owner_user_id IN
            /\ _has_section_access(connections, id, o, actor, cap)
                  <=> _has_section_access(Exchanged(connections), id, o, actor, cap)
            /\ ItemService_has_access(connections, id, o, actor, cap)
                  <=> ItemService_has_access(Exchanged(connections), id, o, actor, cap)
            /\ router_section_has_access(connections, id, o, actor, cap)
                  <=> router_section_has_access(Exchanged(connections), id, o, actor, cap)
            /\ router_item_has_access(connections, id, o, actor, cap)
                  <=> router_item_has_access(Exchanged(connections), id, o, actor, cap)

\* the actor initiated the connection (the owner is user_b) and reads the
\* owner's section
C3_Witness ==
    /\ last.op = "get_section"
    /\ last.code = HTTP_200
    /\ \E s \in sections :
          /\ s.section_id = last.target
          /\ s.owner_user_id # last.actor
          /\ \E c \in connections : /\ c.user_a_id = last.actor
                                    /\ c.user_b_id = s.owner_user_id

\* C4: every item-creation call (create_item, create_voice_item) of a
\* non-owner whose rule grants view and not edit is answered 403.
C4_ViewOnlyCannotCreate ==
    (/\ last.op \in {"create_item", "create_voice_item"}
     /\ \E s \in sections : /\ last.target \in {s.section_id, NoSection}
                            /\ Granted(last.actor, s, "view")
                            /\ ~ Granted(last.actor, s, "edit"))
    => last.code = HTTP_403

\* C5: an update_connection call with status = Accepted on a Pending
\* connection, made by anyone other than user_b, is answered 403 and leaves
\* the connections table (so the Pending status) as it was.
C5_OnlyRecipientAccepts ==
    [][ (/\ last'.op = "update_connection"
         /\ last'.status = ACCEPTED
         /\ \E c \in connections : /\ c.connection_id = last'.target
                                   /\ c.status = PENDING
                                   /\ c.user_b_id # last'.actor)
        => (last'.code = HTTP_403 /\ connections' = connections) ]_vars

C5_Witness ==
    /\ last.op = "update_connection"
    /\ last.status = ACCEPTED
    /\ last.code = HTTP_403
    /\ \E c \in connections : /\ c.connection_id = last.target
                              /\ c.status = PENDING
                              /\ c.user_a_id = last.actor
                              /\ c.user_b_id # last.actor

\* C6: once a connection is Accepted, no step other than its deletion
\* changes its status.
C6_AcceptedIsTerminal ==
    [][ \A c \in connections : \A d \in connections' :
            (SameRow(c, d) /\ c.status = ACCEPTED) => d.status = ACCEPTED ]_vars

\* C7: an update_connection call that supplies connection_type and is made
\* by someone other than user_a is answered 403 and leaves the table as it
\* was; and a row's connection_type changes only in an update_connection
\* step of its user_a.
C7_OnlyInitiatorRetypes ==
    [][ /\ (/\ last'.op = "update_connection"
            /\ last'.ctype # None
            /\ \E c \in connections : /\ c.connection_id = last'.target
                                      /\ c.user_a_id # last'.actor)
           => (last'.code = HTTP_403 /\ connections' = connections)
        /\ \A c \in connections : \A d \in connections' :
               (SameRow(c, d) /\ c.connection_type # d.connection_type)
               => (/\ last'.op = "update_connection"
                   /\ last'.actor = c.user_a_id
                   /\ d.connection_type = last'.ctype) ]_vars

C7_Witness ==
    /\ last.op = "update_connection"
    /\ last.ctype # None
    /\ last.code = HTTP_403
    /\ \E c \in connections : /\ c.connection_id = last.target
                              /\ c.user_b_id = last.actor
                              /\ c.user_a_id # last.actor
                              /\ c.connection_type # last.ctype

\* C8: with requests served one at a time there is at most one connection
\* per unordered pair of users, and a create_connection between two users
\* who already share one, in either ordering, is answered 400, stores
\* nothing and reports the status of the existing row.
C8_AtMostOnePerPair ==
    \A c, d \in connections :
        {c.user_a_id, c.user_b_id} = {d.user_a_id, d.user_b_id} => c = d

C8_DuplicateRejected ==
    (/\ last'.op = "create_connection"
     /\ last'.actor # last'.target
     /\ ConnectionsOfPair(last'.actor, last'.target) # {})
    => (/\ last'.code = HTTP_400
        /\ connections' = connections
        /\ \E e \in ConnectionsOfPair(last'.actor, last'.target) :
               last'.detail = e.status)

C8_OneConnectionPerPair ==
    [](C8_AtMostOnePerPair) /\ [][C8_DuplicateRejected]_vars

\* C9: of two create_connection requests for the same unordered pair that
\* both pass the existence check before either inserts, at most one insert
\* succeeds, the other is answered with an error, and the pair has at most
\* one connection afterwards.
C9_RaceResolved ==
    \A p, q \in Procs :
        (/\ p # q
         /\ inflight[p].pc = "done" /\ inflight[q].pc = "done"
         /\ {inflight[p].actor, inflight[p].target} = {inflight[q].actor, inflight[q].target}
         /\ inflight[p].code = HTTP_200)
        => (/\ inflight[q].code # HTTP_200
            /\ Cardinality(ConnectionsOfPair(inflight[p].actor, inflight[p].target)) <= 1)

\* C10: no connection joins a user to themselves.
C10_NoSelfConnection ==
    \A c \in connections : c.user_a_id # c.user_b_id

\* C11: at most one rule per (section, connection type); a successful
\* create_section_access leaves exactly the rule with the flags of that call
\* for its pair and touches no other pair; the rules of a pair change in no
\* other step except the deletion of their section.
RulesOf(db_section_access, section_id, ctype) ==
    {r \in db_section_access : /\ r.section_id = section_id
                               /\ r.allowed_connection_type = ctype}

C11_AtMostOneRule ==
    \A r, q \in section_access :
        (r.section_id = q.section_id
         /\ r.allowed_connection_type = q.allowed_connection_type) => r = q

C11_WriteWins ==
    /\ (last'.op = "create_section_access" /\ last'.code = HTTP_200)
       => RulesOf(section_access', last'.target, last'.ctype)
             = {SectionAccess(last'.target, last'.ctype,
                              last'.can_view, last'.can_edit)}
    /\ \A id \in 1..MaxSectionId, ty \in ConnectionType :
          RulesOf(section_access', id, ty) # RulesOf(section_access, id, ty)
          => \/ /\ last'.op = "create_section_access"
                /\ last'.code = HTTP_200
                /\ last'.target = id /\ last'.ctype = ty
                /\ \E s \in sections : s.section_id = id
                                        /\ s.owner_user_id = last'.actor
             \/ /\ last'.op = "delete_section"
                /\ last'.target = id
                /\ RulesOf(section_access', id, ty) = {}

C11_LastWriteWins == [](C11_AtMostOneRule) /\ [][C11_WriteWins]_vars

C11_Witness ==
    /\ last.op = "create_section_access"
    /\ last.code = HTTP_200
    /\ last.detail = "updated"
    /\ ~ last.can_view
    /\ RulesOf(section_access, last.target, last.ctype)
          = {SectionAccess(last.target, last.ctype, FALSE, last.can_edit)}

\* C12: create_section_access and get_section_access are refused (403) to
\* every non-owner of an existing section, one whose connection grants
\* can_edit included, and a refused call leaves the rules as they were.
C12_NonOwnerRefused ==
    \A s \in sections : \A actor \in Users \ {s.owner_user_id} :
        /\ SectionService_create_section_access(s.section_id, actor) = HTTP_403
        /\ router_create_section_access(s.section_id, actor) = HTTP_403
        /\ SectionService_get_section_access(s.section_id, actor) = HTTP_403
        /\ router_get_section_access(s.section_id, actor) = HTTP_403

C12_RefusedStep ==
    (/\ last'.op \in {"create_section_access", "get_section_access"}
     /\ \E s \in sections : /\ s.section_id = last'.target
                            /\ s.owner_user_id # last'.actor)
    => (last'.code = HTTP_403 /\ section_access' = section_access)

C12_OnlyOwnerManagesRules == [](C12_NonOwnerRefused) /\ [][C12_RefusedStep]_vars

C12_Witness ==
    /\ last.op = "create_section_access"
    /\ last.code = HTTP_403
    /\ \E s \in sections : /\ s.section_id = last.target
                           /\ Granted(last.actor, s, "edit")

\* C13: delete_section by a non-owner (one with can_edit included) is
\* answered 403 and the section remains; delete_connection by a user who is
\* not an endpoint is answered 403 and the connection remains; a section
\* disappears only in a delete_section step of its owner, a connection only
\* in a delete_connection step of one of its endpoints.
C13_DeleteStep ==
    /\ (/\ last'.op = "delete_section"
        /\ \E s \in sections : /\ s.section_id = last'.target
                               /\ s.owner_user_id # last'.actor)
       => (last'.code = HTTP_403 /\ sections' = sections)
    /\ (/\ last'.op = "delete_connection"
        /\ \E c \in connections : /\ c.connection_id = last'.target
                                  /\ last'.actor \notin {c.user_a_id, c.user_b_id})
       => (last'.code = HTTP_403 /\ connections' = connections)
    /\ \A s \in sections \ sections' :
          /\ last'.op = "delete_section"
          /\ last'.code = HTTP_204
          /\ last'.target = s.section_id
          /\ last'.actor = s.owner_user_id
    /\ \A c \in connections \ connections' :
          /\ last'.op = "delete_connection"
          /\ last'.code = HTTP_204
          /\ last'.target = c.connection_id
          /\ last'.actor \in {c.user_a_id, c.user_b_id}

C13_OnlyOwnerOrEndpointDeletes == [][C13_DeleteStep]_vars

C13_Witness ==
    /\ last.op = "delete_section"
    /\ last.code = HTTP_403
    /\ \E s \in sections : /\ s.section_id = last.target
                           /\ Granted(last.actor, s, "edit")

\* C14: every item and every access rule refers to an existing section, and
\* a successful delete_section leaves no item and no rule of that section.
C14_RefersToSection ==
    /\ \A i \in items : \E s \in sections : s.section_id = i.section_id
    /\ \A r \in section_access : \E s \in sections : s.section_id = r.section_id

C14_DeleteCascades ==
    (last'.op = "delete_section" /\ last'.code = HTTP_204)
    => /\ \A i \in items' : i.section_id # last'.target
       /\ \A r \in section_access' : r.section_id # last'.target
       /\ \A s \in sections' : s.section_id # last'.target

C14_NoOrphans == [](C14_RefersToSection) /\ [][C14_DeleteCascades]_vars

\* an item had been created (next_item_id advanced), its section was deleted
\* and the item went with it
C14_Witness ==
    /\ last.op = "delete_section"
    /\ last.code = HTTP_204
    /\ next_item_id > 1
    /\ items = {}
    /\ sections = {}

\* C15: every item that search_items or the home screen returns lies in a
\* section the caller owns or may view, whatever its similarity.
Returned(result) ==
    IF last.op = "search_items" THEN {result[k] : k \in DOMAIN result} ELSE result

C15_OnlyViewableReturned ==
    last.op \in {"search_items", "get_home_screen"}
    => \A id \in Returned(last.items) :
          \E i \in items : \E s \in sections :
             /\ i.item_id = id
             /\ s.section_id = i.section_id
             /\ (s.owner_user_id = last.actor \/ Granted(last.actor, s, "view"))

\* an item the caller may not view matches the query and is not returned
C15_Witness ==
    /\ last.op = "search_items"
    /\ last.items = << >>
    /\ \E i \in items : \E s \in sections :
          /\ s.section_id = i.section_id
          /\ s.owner_user_id # last.actor
          /\ ~ Granted(last.actor, s, "view")
          /\ Granted(last.actor, s, "edit")
          /\ last.similarity[i.item_id] > SIMILARITY_THRESHOLD

\* ---------------------------------------------------------------------
Stored(hash_id) ==
    \E i \in DOMAIN vectordb : vectordb[i].original_hash_id = hash_id

\* C16: a successful vectorize_and_store reports the hash of its text; for a
\* text not yet in the index it stores and reports its N chunks, and for a
\* text already in the index it stores nothing and reports chunks_count 0.
C16_Idempotent ==
    [][ (last'.op = "vectorize_and_store" /\ last'.code = HTTP_200)
        => /\ last'.hash_id = hash_text(last'.text)
           /\ IF Stored(hash_text(last'.text))
              THEN vectordb' = vectordb /\ last'.chunks_count = 0
              ELSE /\ Len(vectordb') = Len(vectordb) + Len(split_text(last'.text))
                   /\ last'.chunks_count = Len(split_text(last'.text)) ]_vars

\* C17: when a catalog is supplied, the chunks are stored and the
\* classification call fails (the model raises or answers what cannot be
\* parsed), vectorize_and_store still succeeds, with the hash id and without
\* a classification.
C17_ClassificationBestEffort ==
    (/\ last.op = "vectorize_and_store"
     /\ last.with_catalog
     /\ last.index_ok
     /\ last.response.kind \in {"raises", "not_json"})
    => (/\ last.code = HTTP_200
        /\ last.hash_id = hash_text(last.text)
        /\ ~ last.classified)

\* C18: when the similarity search succeeds and the summarization fails,
\* query_text answers 200 with the retrieved results and no summary.
C18_SummaryBestEffort ==
    (/\ last.op = "query_text"
     /\ last.search_ok
     /\ ~ last.summary_ok)
    => (/\ last.code = HTTP_200
        /\ last.results = similarity_search(last.k)
        /\ ~ last.has_summary)

\* C19: every classification result has confidence 1.0 or 0.0, 0.0 exactly
\* for the name "None" and 1.0 for a section's name, and its section_id is
\* null whenever the name is "None".
C19_BinaryConfidence ==
    (last.op = "vectorize_and_store" /\ last.classified)
    => LET c == last.classification IN
       /\ c.confidence_score \in {"1.0", "0.0"}
       /\ c.predicted_section_name = "None" => c.confidence_score = "0.0"
       /\ c.predicted_section_name = "Groceries" => c.confidence_score = "1.0"
       /\ c.predicted_section_name = "None" => c.section_id = NoSection

\* C20: an answer that is not JSON, or is a JSON object without
\* predicted_section_name or without section_id, never yields a
\* classification result.
WellFormed(response) ==
    response.kind = "object" /\ response.has_name /\ response.has_id

C20_MalformedFails ==
    (/\ last.op = "vectorize_and_store"
     /\ last.with_catalog
     /\ last.index_ok
     /\ last.response.kind \in {"not_json", "object"}
     /\ ~ WellFormed(last.response))
    => (~ last.classified /\ classify_text_with_llm(last.response).code # HTTP_200)

\* C21: the decision for a non-owner is the same on the connections table
\* with every status set to Pending and with every status set to Accepted,
\* so a Pending connection grants what the matching rule allows.
WithStatus(db_connections, status) ==
    {[c EXCEPT !.status = status] : c \in db_connections}

C21_StatusIgnored ==
    \A s \in sections : \A actor \in Users \ {s.owner_user_id} :
        \A cap \in {"view", "edit"} :
            LET id == s.section_id
                o == s.owner_user_id
                pending == WithStatus(connections, PENDING)
                accepted == WithStatus(connections, ACCEPTED) IN
            /\ _has_section_access(pending, id, o, actor, cap)
                  <=> _has_section_access(accepted, id, o, actor, cap)
            /\ _has_section_access(pending, id, o, actor, cap) <=> Granted(actor, s, cap)
            /\ ItemService_has_access(pending, id, o, actor, cap)
                  <=> ItemService_has_access(accepted, id, o, actor, cap)
            /\ router_section_has_access(pending, id, o, actor, cap)
                  <=> router_section_has_access(accepted, id, o, actor, cap)
            /\ router_item_has_access(pending, id, o, actor, cap)
                  <=> router_item_has_access(accepted, id, o, actor, cap)

\* a non-owner reads a section through a connection nobody accepted
C21_Witness ==
    /\ last.op = "get_section"
    /\ last.code = HTTP_200
    /\ \E s \in sections :
          /\ s.section_id = last.target
          /\ s.owner_user_id # last.actor
          /\ \A c \in connections : c.status = PENDING
          /\ \E c \in connections : {c.user_a_id, c.user_b_id} = {last.actor, s.owner_user_id}

\* C22: an operation addressed by an id answers 404 to every caller when
\* the id resolves to nothing, in both layers and whatever else the request
\* carries, so that 403 is an answer about rows that exist.  The step part
\* says the same of the requests served: one naming an id that was absent
\* before the step is answered 404.
ConnectionCodes(id, actor) ==
    {ConnectionService_get_connection(id, actor), router_get_connection(id, actor),
     ConnectionService_delete_connection(id, actor), router_delete_connection(id, actor)}
    \cup {ConnectionService_update_connection(id, actor, ty, st) : ty \in OptType, st \in OptStatus}
    \cup {router_update_connection(id, actor, ty, st) : ty \in OptType, st \in OptStatus}

SectionCodes(id, actor) ==
    {SectionService_get_section(id, actor), router_get_section(id, actor),
     SectionService_update_section(id, actor), router_update_section(id, actor),
     SectionService_delete_section(id, actor), router_delete_section(id, actor),
     SectionService_create_section_access(id, actor), router_create_section_access(id, actor),
     SectionService_get_section_access(id, actor), router_get_section_access(id, actor)}

ItemCodes(id, actor) ==
    {ItemService_get_item(id, actor), router_get_item(id, actor),
     ItemService_update_item(id, actor), router_update_item(id, actor),
     ItemService_delete_item(id, actor), router_delete_item(id, actor)}

AbsentMeans404(codes, rows) ==
    /\ rows = {} => codes = {HTTP_404}
    /\ HTTP_403 \in codes => rows # {}

C22_Codes ==
    \A actor \in Users :
        /\ \A id \in 1..(MaxConnId + 1) :
              AbsentMeans404(ConnectionCodes(id, actor), get_connection_by_id(id))
        /\ \A id \in 1..(MaxSectionId + 1) :
              AbsentMeans404(SectionCodes(id, actor), get_section_by_id(id))
        /\ \A id \in 1..(MaxItemId + 1) :
              AbsentMeans404(ItemCodes(id, actor), get_item_by_id(id))

C22_Served ==
    /\ last'.op \in {"get_connection", "update_connection", "delete_connection"}
          /\ get_connection_by_id(last'.target) = {} => last'.code = HTTP_404
    /\ last'.op \in {"get_section", "update_section", "delete_section", "create_section_access", "get_section_access"}
          /\ get_section_by_id(last'.target) = {} => last'.code = HTTP_404
    /\ last'.op \in {"get_item", "update_item", "delete_item"}
          /\ get_item_by_id(last'.target) = {} => last'.code = HTTP_404
    /\ last'.code = HTTP_403 /\ last'.op \in {"delete_connection"}
          => get_connection_by_id(last'.target) # {}
    /\ last'.code = HTTP_403 /\ last'.op \in {"delete_section", "create_section_access"}
          => get_section_by_id(last'.target) # {}
    /\ last'.code = HTTP_403 /\ last'.op \in {"get_item", "update_item", "delete_item"}
          => get_item_by_id(last'.target) # {}

C22_NotFoundBeforeForbidden == [](C22_Codes) /\ [][C22_Served]_vars

\* a section was deleted with an item in it, and a user who owned neither
\* asks for the item and then is refused the deletion of a section that is
\* there: 404 for what is gone, 403 for what exists
C22_Witness ==
    /\ last.op = "delete_section"
    /\ last.code = HTTP_403
    /\ get_section_by_id(last.target) # {}
    /\ next_item_id > 1
    /\ get_item_by_id(1) = {}
    /\ ItemService_get_item(1, last.actor) = HTTP_404
    /\ router_update_item(1, last.actor) = HTTP_404

\* C23: when several connections join the actor and the owner, the decision
\* is the rule flag for the type of the first of them (the rows come back in
\* insertion order, the query has no ORDER BY), whatever the rules for the
\* types of the others.
FirstMatch(matching) ==
    CHOOSE c \in matching : \A d \in matching : c.connection_id <= d.connection_id

RuleFlag(section_id, connection_type, access_type) ==
    \E access_rule \in get_section_access_rule(section_id, connection_type) :
        IF access_type = "view" THEN access_rule.can_view ELSE access_rule.can_edit

C23_FirstMatchOnly ==
    \A s \in sections : \A actor \in Users \ {s.owner_user_id} :
        \A cap \in {"view", "edit"} :
            LET matching == SectionRepository_get_connections_between_users(connections, s.owner_user_id, actor) IN
            matching # {} =>
                (_has_section_access(connections, s.section_id, s.owner_user_id, actor, cap)
                    <=> RuleFlag(s.section_id, FirstMatch(matching).connection_type, cap))

\* C24: search_items returns the accessible items whose similarity is at
\* or above the threshold (one scoring exactly the threshold is kept), at
\* most SEARCH_LIMIT of them, in non-increasing order of similarity.
Candidates(actor) ==
    {i.item_id : i \in {i \in items : i.section_id \in all_accessible_section_ids(actor)}}

NonIncreasing(result, similarity) ==
    \A j, k \in DOMAIN result : j < k => similarity[result[j]] >= similarity[result[k]]

C24_PageAndOrder ==
    last'.op = "search_items"
    => /\ Len(last'.items) <= SEARCH_LIMIT
       /\ NonIncreasing(last'.items, last'.similarity)
       /\ \A id \in Candidates(last'.actor) :
             last'.similarity[id] < SIMILARITY_THRESHOLD
                => id \notin {last'.items[k] : k \in DOMAIN last'.items}

C24_ThresholdKept ==
    last'.op = "search_items"
    => \A id \in Candidates(last'.actor) :
          (Cardinality(Candidates(last'.actor)) <= SEARCH_LIMIT
               /\ last'.similarity[id] >= SIMILARITY_THRESHOLD)
             => id \in {last'.items[k] : k \in DOMAIN last'.items}

C24_SearchPage == [][C24_PageAndOrder /\ C24_ThresholdKept]_vars

C24_PageAndOrderOnly == [][C24_PageAndOrder]_vars

\* C25: each singleton is constructed at most once in the process, a call
\* that returns after a construction returns the instance the global holds,
\* and a construction that fails raises and leaves the global unset.
C25_AtMostOnce ==
    /\ constructed.AIService <= 1
    /\ constructed.SentenceTransformer <= 1

C25_SameInstance ==
    \A p \in Procs :
        callers[p].pc = "returned" /\ callers[p].ret # NoInstance
        => callers[p].ret = (IF callers[p].fn = "get_ai_service" THEN ai_service ELSE model)

C25_FailureRaises ==
    \A p \in Procs :
        /\ callers[p].pc = "raised" /\ constructed.AIService = 0 => ai_service = NoInstance
        /\ callers[p].pc = "returned" => callers[p].ret # NoInstance

C25_Singleton == C25_AtMostOnce /\ C25_SameInstance /\ C25_FailureRaises

\* the parts of C25 taken one getter at a time
C25_ModelAtMostOnce ==
    /\ constructed.SentenceTransformer <= 1
    /\ \A p \in Procs :
          callers[p].pc = "returned" /\ callers[p].fn = "get_model" /\ callers[p].ret # NoInstance
          => callers[p].ret = model

C25_AIServiceFailureRaises ==
    \A p \in Procs :
        callers[p].pc = "raised" /\ constructed.AIService = 0 => ai_service = NoInstance

C25_AIServiceReturnsInstance ==
    \A p \in Procs :
        callers[p].pc = "returned" /\ callers[p].fn = "get_ai_service" => callers[p].ret # NoInstance

\* C26: every step that adds a connection is a create_connection that adds
\* exactly one row, with status Pending, user_a_id the caller and user_b_id
\* the target the request names; and no stored connection is Accepted unless
\* an update_connection made it so.
C26_Updated ==
    \A c \in connections' \ connections :
        get_connection_by_id(c.connection_id) # {} => last'.op = "update_connection"

C26_CreatedPending ==
    [][ /\ \A c \in connections' \ connections :
              get_connection_by_id(c.connection_id) = {}
              => /\ last'.op = "create_connection"
                 /\ last'.code = HTTP_200
                 /\ c = Connection(next_connection_id, last'.actor, last'.target, last'.ctype, PENDING)
                 /\ connections' = connections \cup {c}
        /\ C26_Updated ]_vars

\* the second connection is created while the first is already Accepted
C26_Witness ==
    /\ last.op = "create_connection"
    /\ last.code = HTTP_200
    /\ \E c, d \in connections :
          /\ c.connection_id = next_connection_id - 1
          /\ c.status = PENDING
          /\ c.user_a_id = last.actor
          /\ c.user_b_id = last.target
          /\ d.status = ACCEPTED

\* C27: an update_connection that carries both connection_type and status and
\* is answered 403 leaves the connections table as it was.
C27_RejectedUpdateAtomic ==
    [][ (/\ last'.op = "update_connection"
         /\ last'.code = HTTP_403
         /\ last'.ctype # None
         /\ last'.status # None)
        => connections' = connections ]_vars

\* the initiator retypes and accepts in one call: the type guard passes, the
\* status guard refuses, and the stored type is still the other one
C27_Witness ==
    /\ last.op = "update_connection"
    /\ last.code = HTTP_403
    /\ last.status = ACCEPTED
    /\ \E c \in connections :
          /\ c.connection_id = last.target
          /\ c.user_a_id = last.actor
          /\ c.user_b_id # last.actor
          /\ last.ctype # None
          /\ c.connection_type # last.ctype
          /\ c.status = PENDING

\* C28: once the connection between an actor and a section owner is
\* deleted, and as long as no connection joins the two, every view and edit
\* decision on the owner's sections denies the actor, and the owner's
\* sections are outside what search_items and get_home_screen read for the
\* actor.
Connected(a, b) == \E c \in connections : {c.user_a_id, c.user_b_id} = {a, b}

Denied(actor, s) ==
    /\ \A cap \in {"view", "edit"} :
          /\ ~ _has_section_access(connections, s.section_id, s.owner_user_id, actor, cap)
          /\ ~ router_section_has_access(connections, s.section_id, s.owner_user_id, actor, cap)
          /\ ~ ItemService_has_access(connections, s.section_id, s.owner_user_id, actor, cap)
          /\ ~ router_item_has_access(connections, s.section_id, s.owner_user_id, actor, cap)
    /\ {SectionService_get_section(s.section_id, actor), router_get_section(s.section_id, actor),
        SectionService_update_section(s.section_id, actor), router_update_section(s.section_id, actor),
        ItemService_get_items_by_section(s.section_id, actor), router_get_items_by_section(s.section_id, actor),
        ItemService_create_item(s.section_id, actor), router_create_item(s.section_id, actor)} = {HTTP_403}
    /\ s.section_id \notin all_accessible_section_ids(actor)
    /\ last.op \in {"search_items", "get_home_screen"} /\ last.actor = actor
          => \A i \in items : i.section_id = s.section_id => i.item_id \notin Returned(last.items)

C29_CreatorDecisions ==
    \A i \in items : \A s \in sections :
        s.section_id = i.section_id
        => /\ ItemService_update_item(i.item_id, i.creator_user_id) = HTTP_200
           /\ router_update_item(i.item_id, i.creator_user_id) = HTTP_200
           /\ ItemService_delete_item(i.item_id, i.creator_user_id) = HTTP_204
           /\ router_delete_item(i.item_id, i.creator_user_id) = HTTP_204
           /\ (i.creator_user_id # s.owner_user_id /\ ~ Granted(i.creator_user_id, s, "view"))
                 => /\ ItemService_get_item(i.item_id, i.creator_user_id) = HTTP_403
                    /\ router_get_item(i.item_id, i.creator_user_id) = HTTP_403

C29_CreatorServed ==
    \A i \in items :
        (last'.target = i.item_id /\ last'.actor = i.creator_user_id)
        => /\ last'.op = "update_item"
              => /\ last'.code = HTTP_200
                 /\ items' = (items \ {i}) \cup {[i EXCEPT !.last_modified_by_user_id = last'.actor]}
           /\ last'.op = "delete_item"
              => /\ last'.code = HTTP_204
                 /\ items' = items \ {i}

C30_ConnectionsAgree ==
    \A actor \in Users : \A id \in ConnIds :
        /\ ConnectionService_get_connection(id, actor) = router_get_connection(id, actor)
        /\ ConnectionService_delete_connection(id, actor) = router_delete_connection(id, actor)
        /\ \A ty \in OptType, st \in OptStatus :
              ConnectionService_update_connection(id, actor, ty, st) = router_update_connection(id, actor, ty, st)

C30_SectionsAgree ==
    \A actor \in Users : \A id \in SectionIds :
        /\ SectionService_get_section(id, actor) = router_get_section(id, actor)
        /\ SectionService_update_section(id, actor) = router_update_section(id, actor)
        /\ SectionService_delete_section(id, actor) = router_delete_section(id, actor)
        /\ SectionService_create_section_access(id, actor) = router_create_section_access(id, actor)
        /\ SectionService_get_section_access(id, actor) = router_get_section_access(id, actor)

C30_ItemsAgree ==
    \A actor \in Users :
        /\ \A id \in SectionIds :
              /\ ItemService_create_item(id, actor) = router_create_item(id, actor)
              /\ ItemService_get_items_by_section(id, actor) = router_get_items_by_section(id, actor)
        /\ \A id \in ItemIds :
              /\ ItemService_get_item(id, actor) = router_get_item(id, actor)
              /\ ItemService_update_item(id, actor) = router_update_item(id, actor)
              /\ ItemService_delete_item(id, actor) = router_delete_item(id, actor)

C30_CreateConnectionAgrees ==
    last'.op = "create_connection"
    => ConnectionService_create_connection(last'.actor, last'.target).code
          = router_create_connection(last'.actor, last'.target).code

C30_ByIdAgree == C30_ConnectionsAgree /\ C30_SectionsAgree /\ C30_ItemsAgree

C30_LayersAgree == [](C30_ByIdAgree) /\ [][C30_CreateConnectionAgrees]_vars

====
